---------------------------- MODULE Spec2Model ----------------------------
(***************************************************************************)
(* A model of spotify_wrapped/models.py: the Account token manager         *)
(* (access_expired, get_valid_access_token, refresh) and the SingleWrapped *)
(* synthesizer (parse, create, _add_artists, _add_tracks).                 *)
(*                                                                         *)
(* Python values are modelled as follows.  A dict is a TLA+ record, a key  *)
(* lookup d[k] raises KeyError when k is not in DOMAIN d.  None is the     *)
(* record None; a nullable string or instant is None or a one-field record *)
(* (Str, Time), so that every comparison is between records.  A raised     *)
(* exception is the name of its class; Ok stands for normal completion.    *)
(***************************************************************************)
EXTENDS Integers, Sequences, FiniteSets, TLC

VARIABLES
    \* ---- Account (models.py 22-25) and the clock
    user,                           \* Account.user, None before Account.new
    access_token,                   \* Account.access_token
    access_token_expiration_time,   \* Account.access_token_expiration_time
    refresh_token,                  \* Account.refresh_token
    now,                            \* timezone.now(), in seconds
    \* ---- SingleWrapped
    artist_json,                    \* the artist payload handed to parse/create
    track_json,                     \* the track payload handed to parse/create
    db,                             \* SingleWrapped.objects: the saved records
    \* ---- the last call, as its caller sees it
    op,                             \* the method called last
    ret,                            \* what it returned (None when it raised)
    raised,                         \* the exception that left it, or Ok
    requests,                       \* the upstream requests it issued, in order
    response                        \* what the upstream answered to the last one

account_vars == <<user, access_token, access_token_expiration_time,
                  refresh_token, now>>
wrapped_vars == <<artist_json, track_json, db>>
call_vars == <<op, ret, raised, requests, response>>
vars == <<account_vars, wrapped_vars, call_vars>>

---------------------------------------------------------------------------
(* Python values *)

None == [none |-> TRUE]
Str(s) == [str |-> s]
Time(t) == [t |-> t]
Ok == "Ok"

\* JSON scalars whose type the code's comparisons depend on
JsonBool(b) == [json |-> "boolean", b |-> b]
JsonString(s) == [json |-> "string", s |-> s]

\* Python's x == "literal": a str equals only a str with the same characters;
\* True == "true" is False.
py_eq_str(x, s) == x.json = "string" /\ x.s = s

\* A JSON text is either well formed, carrying the value it denotes, or not.
JsonText(v) == [text |-> "json", value |-> v]
NotJson == [text |-> "not json"]

\* json.loads: the value of a well-formed text, JSONDecodeError otherwise
json_loads(s) ==
    IF s.text = "json" THEN [exc |-> Ok, value |-> s.value]
    ELSE [exc |-> "JSONDecodeError"]

\* a dict without key k
Without(d, k) == [x \in DOMAIN d \ {k} |-> d[x]]

\* an exact quotient total / count (count > 0), as the pair it is
Div(total, count) == [num |-> total, den |-> count]
\* avg >= k and avg <= k for an integer k
Ge(avg, k) == avg.num >= k * avg.den
Le(avg, k) == avg.num <= k * avg.den

---------------------------------------------------------------------------
(* Bounds *)

MaxArtists == 2      \* artist payloads hold at most this many items
MaxTracks == 2       \* track payloads hold at most this many items
MaxRecords == 1      \* create is called at most this many times
MaxTime == 3         \* the clock runs from 0 to this
MaxLifetime == 2     \* the upstream's expires_in is at most this
MaxLatency == 1      \* seconds a refresh request may take


---------------------------------------------------------------------------
(* The payloads parse and create are given *)

Image(url) == [url |-> url, height |-> 640, width |-> 640]

\* an item of the top-artists payload with every field the code reads
Artist(name, total, popularity, genres, images) ==
    [name |-> name, followers |-> [total |-> total], popularity |-> popularity,
     genres |-> genres, images |-> images]

\* an item of the top-tracks payload with every field the code reads
Track(name, popularity, duration_ms, explicit, images) ==
    [name |-> name, popularity |-> popularity, duration_ms |-> duration_ms,
     explicit |-> explicit, album |-> [images |-> images]]

ArtikAsti == Artist("Artik & Asti", 1076226, 42, <<"russian pop">>,
                    <<Image("a1-640.jpg"), Image("a1-320.jpg")>>)
Migos == Artist("Migos", 9000, 80, <<"rap", "trap">>, <<>>)
Niche == Artist("Niche", 12, 19, <<>>, <<Image("a3.jpg")>>)
\* popularity is taken as provided: with Migos these give means of 60 and 20
Mid == Artist("Mid", 300, 40, <<"trap">>, <<>>)
Hated == Artist("Hated", 1, -40, <<"trap", "russian pop">>, <<Image("a5.jpg")>>)

WalkIt == Track("Walk It Talk It", 50, 200000, JsonBool(FALSE), <<>>)
LongSong == Track("Long Song", 70, 300000, JsonBool(TRUE), <<Image("t2.jpg")>>)
ShortSong == Track("Short Song", 10, 60000, JsonString("true"),
                   <<Image("t3-640.jpg"), Image("t3-64.jpg")>>)

CompleteArtists == {ArtikAsti, Migos, Niche, Mid, Hated}
CompleteTracks == {WalkIt, LongSong, ShortSong}
\* items that lack a field
ArtistPool == CompleteArtists \cup {Without(ArtikAsti, "genres"), Without(Migos, "name")}
TrackPool == CompleteTracks \cup {Without(LongSong, "explicit")}

SeqsUpTo(S, n) == UNION {[1..k -> S] : k \in 0..n}

\* {"items": [...]}, a JSON object without "items", and a text that is not JSON
ArtistPayloads ==
    {JsonText([items |-> l]) : l \in SeqsUpTo(ArtistPool, MaxArtists)}
        \cup {JsonText([error |-> "unauthorized"]), NotJson}
TrackPayloads ==
    {JsonText([items |-> l]) : l \in SeqsUpTo(TrackPool, MaxTracks)}
        \cup {JsonText([error |-> "unauthorized"]), NotJson}

UUIDs == 1..(MaxRecords + 1)

---------------------------------------------------------------------------
(* SingleWrapped: the synthesizer *)

Raise(exc) == [exc |-> exc]
Return(w) == [exc |-> Ok, wrapped |-> w]

\* wrapped.slides.append(text)
append_slide(w, text) == [w EXCEPT !.slides = Append(@, text)]

\* genre_counts is a dict: its keys in insertion order, each with its count
dict_has(d, k) == \E i \in 1..Len(d) : d[i].key = k
\* dict_incr with a key counted once however often it is seen
dict_set_one(d, k) ==
    IF dict_has(d, k) THEN d ELSE Append(d, [key |-> k, count |-> 1])

dict_incr(d, k) ==
    IF dict_has(d, k)
    THEN [i \in 1..Len(d) |-> IF d[i].key = k THEN [d[i] EXCEPT !.count = @ + 1] ELSE d[i]]
    ELSE Append(d, [key |-> k, count |-> 1])

\* for genre in genres: count it (models.py 192-196)
RECURSIVE count_genres(_, _, _)
count_genres(genre_counts, genres, i) ==
    IF i > Len(genres) THEN genre_counts
    ELSE count_genres(dict_incr(genre_counts, genres[i]), genres, i + 1)

\* max(genre_counts, key=genre_counts.get): the first key, in iteration order,
\* whose count no other exceeds; ValueError on an empty dict
max_by_count(genre_counts) ==
    IF Len(genre_counts) = 0 THEN Raise("ValueError")
    ELSE LET first == CHOOSE i \in 1..Len(genre_counts) :
                 /\ \A j \in 1..Len(genre_counts) :
                        genre_counts[j].count <= genre_counts[i].count
                 /\ \A j \in 1..(i - 1) :
                        genre_counts[j].count < genre_counts[i].count
         IN [exc |-> Ok, value |-> Str(genre_counts[first].key)]

\* the body of "for artist in top_artists" for one artist (models.py 186-196)
artist_step(acc, artist) ==
    IF "popularity" \notin DOMAIN artist THEN Raise("KeyError")
    ELSE IF "genres" \notin DOMAIN artist THEN Raise("KeyError")
    ELSE IF "images" \notin DOMAIN artist THEN Raise("KeyError")
    ELSE [exc |-> Ok,
          total_artist_popularity |-> acc.total_artist_popularity + artist.popularity,
          artist_images |->
              Append(acc.artist_images,
                     IF Len(artist.images) > 0 THEN artist.images[1] ELSE None),
          genre_counts |-> count_genres(acc.genre_counts, artist.genres, 1)]

RECURSIVE artists_loop(_, _, _)
artists_loop(top_artists, i, acc) ==
    IF acc.exc # Ok \/ i > Len(top_artists) THEN acc
    ELSE artists_loop(top_artists, i + 1, artist_step(acc, top_artists[i]))

\* avg > k for an integer k
Gt(avg, k) == avg.num > k * avg.den

\* _conclude_artist_popularity with the lower bounds exclusive
_conclude_artist_popularity_exclusive(w, avg_artist_popularity) ==
    IF Gt(avg_artist_popularity, 80)
    THEN append_slide(w, "Everyone's on the same page about your favorite artists!")
    ELSE IF Gt(avg_artist_popularity, 60)
    THEN append_slide(w, "Your favorite artists are interesting, but not controversial.")
    ELSE IF Gt(avg_artist_popularity, 40)
    THEN append_slide(w, "You have a niche taste in artists!")
    ELSE IF Gt(avg_artist_popularity, 20)
    THEN append_slide(w, "You tend to enjoy the smaller creators!")
    ELSE append_slide(w, "Your taste in artists is quite unique!")

_conclude_artist_popularity(w, avg_artist_popularity) ==
    IF Ge(avg_artist_popularity, 80)
    THEN append_slide(w, "Everyone's on the same page about your favorite artists!")
    ELSE IF Ge(avg_artist_popularity, 60)
    THEN append_slide(w, "Your favorite artists are interesting, but not controversial.")
    ELSE IF Ge(avg_artist_popularity, 40)
    THEN append_slide(w, "You have a niche taste in artists!")
    ELSE IF Ge(avg_artist_popularity, 20)
    THEN append_slide(w, "You tend to enjoy the smaller creators!")
    ELSE append_slide(w, "Your taste in artists is quite unique!")

NicheGenreSlide == "Your favorite artists are so niche, we don't know what genre they are!"

\* the slide for the favourite genre (models.py 198-202)
genre_slide(w, favorite_genre) ==
    IF favorite_genre = None
    THEN append_slide(w, NicheGenreSlide)
    ELSE append_slide(w, "Your most played genre was " \o favorite_genre.str \o "!")

_add_artists(w, top_artists) ==
    IF "name" \notin DOMAIN top_artists[1] THEN Raise("KeyError")
    ELSE IF "followers" \notin DOMAIN top_artists[1] THEN Raise("KeyError")
    ELSE IF "total" \notin DOMAIN top_artists[1].followers THEN Raise("KeyError")
    ELSE
    LET w1 == append_slide(w, "Your number one artist was " \o top_artists[1].name \o "!")
        w2 == append_slide(w1, "That makes you one of "
                                 \o ToString(top_artists[1].followers.total) \o " fans!")
        loop == artists_loop(top_artists, 1,
                    [exc |-> Ok, total_artist_popularity |-> 0,
                     artist_images |-> w2.artist_images, genre_counts |-> <<>>])
    IN  IF loop.exc # Ok THEN Raise(loop.exc)
        ELSE
        LET favorite_genre == max_by_count(loop.genre_counts)
        IN  IF favorite_genre.exc # Ok THEN Raise(favorite_genre.exc)
            ELSE
            LET w3 == genre_slide([w2 EXCEPT !.artist_images = loop.artist_images],
                                  favorite_genre.value)
                avg_artist_popularity ==
                    Div(loop.total_artist_popularity, Len(top_artists))
            IN  Return(_conclude_artist_popularity(w3, avg_artist_popularity))

\* the body of "for track in top_tracks" for one track (models.py 224-231)
track_step(acc, track) ==
    IF "popularity" \notin DOMAIN track THEN Raise("KeyError")
    ELSE IF "duration_ms" \notin DOMAIN track THEN Raise("KeyError")
    ELSE IF "album" \notin DOMAIN track THEN Raise("KeyError")
    ELSE IF "images" \notin DOMAIN track.album THEN Raise("KeyError")
    ELSE IF "explicit" \notin DOMAIN track THEN Raise("KeyError")
    ELSE [exc |-> Ok,
          total_track_popularity |-> acc.total_track_popularity + track.popularity,
          total_length |-> acc.total_length + track.duration_ms,
          track_images |->
              Append(acc.track_images,
                     IF Len(track.album.images) > 0 THEN track.album.images[1] ELSE None),
          total_explicit |->
              IF py_eq_str(track.explicit, "true")
              THEN acc.total_explicit + 1 ELSE acc.total_explicit]

RECURSIVE tracks_loop(_, _, _)
tracks_loop(top_tracks, i, acc) ==
    IF acc.exc # Ok \/ i > Len(top_tracks) THEN acc
    ELSE tracks_loop(top_tracks, i + 1, track_step(acc, top_tracks[i]))

\* the slide for the average length (models.py 234-239)
length_slide(w, avg_length) ==
    IF Le(avg_length, 60000) THEN append_slide(w, "You tend to like shorter songs.")
    ELSE IF Le(avg_length, 240000) THEN append_slide(w, "You tend to like mid-length songs.")
    ELSE append_slide(w, "You tend to like longer songs.")

\* the slide for the explicit count (models.py 241-247); the source's first text
\* ends in the character U+1F607, which is left out here
explicit_slide(w, total_explicit) ==
    IF total_explicit = 0
    THEN append_slide(w, "None of your top 5 songs were explicit")
    ELSE IF total_explicit <= 3
    THEN append_slide(w, ToString(total_explicit) \o " of your top 5 songs were explicit.")
    ELSE append_slide(w, "Oh my! " \o ToString(total_explicit)
                             \o " of your top 5 songs were explicit.")

_conclude_track_popularity(w, avg_popularity) ==
    IF Ge(avg_popularity, 67)
    THEN append_slide(w, "Most people would totally vibe with your playlist!")
    ELSE IF Ge(avg_popularity, 33)
    THEN append_slide(w, "People may not have heard of the songs you like."
                             \o " All the more reason to share them!")
    ELSE append_slide(w, "You'll be able to impress people with your knowledge"
                             \o " of less popular songs!")

_add_tracks(w, top_tracks) ==
    IF Len(top_tracks) = 0 THEN Raise("IndexError")
    ELSE IF "name" \notin DOMAIN top_tracks[1] THEN Raise("KeyError")
    ELSE
    LET w1 == append_slide(w, "Your number one song was " \o top_tracks[1].name \o "!")
        loop == tracks_loop(top_tracks, 1,
                    [exc |-> Ok, total_track_popularity |-> 0, total_length |-> 0,
                     track_images |-> w1.track_images, total_explicit |-> 0])
    IN  IF loop.exc # Ok THEN Raise(loop.exc)
        ELSE
        LET avg_length == Div(loop.total_length, Len(top_tracks))
            avg_popularity == Div(loop.total_track_popularity, Len(top_tracks))
            w2 == length_slide([w1 EXCEPT !.track_images = loop.track_images], avg_length)
            w3 == explicit_slide(w2, loop.total_explicit)
        IN  Return(_conclude_track_popularity(w3, avg_popularity))

NoMusicSlide == "You didn't listen to any music recently."

\* SingleWrapped() and its first assignments (models.py 102-108); uuid is what
\* uuid.uuid4() returns
new_wrapped(owner, uuid) ==
    [id |-> uuid, created_at |-> now, user |-> owner, slides |-> <<>>,
     artist_images |-> <<>>, track_images |-> <<>>, type |-> "Single Wrapped"]

\* the rest of parse (models.py 109-118)
parse_payloads(w, artists, tracks) ==
    LET artist_dict == json_loads(artists)
    IN  IF artist_dict.exc # Ok THEN Raise(artist_dict.exc)
        ELSE IF "items" \notin DOMAIN artist_dict.value THEN Raise("KeyError")
        ELSE
        LET top_artists == artist_dict.value.items
        IN  IF Len(top_artists) = 0 THEN Return(append_slide(w, NoMusicSlide))
            ELSE
            LET a == _add_artists(w, top_artists)
                track_dict == json_loads(tracks)
            IN  IF a.exc # Ok THEN Raise(a.exc)
                ELSE IF track_dict.exc # Ok THEN Raise(track_dict.exc)
                ELSE IF "items" \notin DOMAIN track_dict.value THEN Raise("KeyError")
                ELSE _add_tracks(a.wrapped, track_dict.value.items)

\* parse with the track payload loaded before the artist list is looked at
parse_tracks_first(owner, artists, tracks, uuid) ==
    LET track_dict == json_loads(tracks)
    IN  IF track_dict.exc # Ok THEN Raise(track_dict.exc)
        ELSE IF "items" \notin DOMAIN track_dict.value THEN Raise("KeyError")
        ELSE parse_payloads(new_wrapped(owner, uuid), artists, tracks)

\* SingleWrapped.parse
parse(owner, artists, tracks, uuid) ==
    parse_payloads(new_wrapped(owner, uuid), artists, tracks)

---------------------------------------------------------------------------
(* SingleWrapped: the operations *)

Owner == Str("test_json_parse")

\* the ids of the saved records
saved_ids == {r.id : r \in db}

\* a call of SingleWrapped.parse(user, artist_json, track_json)
Parse ==
    \E uuid \in UUIDs \ saved_ids :
        LET r == parse(Owner, artist_json, track_json, uuid)
        IN  /\ op' = "parse"
            /\ raised' = r.exc
            /\ ret' = IF r.exc = Ok THEN r.wrapped ELSE None
            /\ UNCHANGED <<wrapped_vars, account_vars, requests, response>>

\* create with the record saved whether or not parse completed
CreateSavesAnyway ==
    /\ Cardinality(db) < MaxRecords
    /\ \E uuid \in UUIDs \ saved_ids :
        LET r == parse(Owner, artist_json, track_json, uuid)
        IN  /\ op' = "create"
            /\ raised' = r.exc
            /\ db' = db \cup {IF r.exc = Ok THEN r.wrapped ELSE new_wrapped(Owner, uuid)}
            /\ ret' = IF r.exc = Ok THEN [id |-> r.wrapped.id] ELSE None
            /\ UNCHANGED <<artist_json, track_json, account_vars, requests, response>>

\* a call of SingleWrapped.create(user, artist_json, track_json):
\* parse, then wrapped.save(), then return wrapped.get_id()
Create ==
    /\ Cardinality(db) < MaxRecords
    /\ \E uuid \in UUIDs \ saved_ids :
        LET r == parse(Owner, artist_json, track_json, uuid)
        IN  /\ op' = "create"
            /\ raised' = r.exc
            /\ db' = IF r.exc = Ok THEN db \cup {r.wrapped} ELSE db
            /\ ret' = IF r.exc = Ok THEN [id |-> r.wrapped.id] ELSE None
            /\ UNCHANGED <<artist_json, track_json, account_vars, requests, response>>

---------------------------------------------------------------------------
(* Account: the token manager *)

timeout == 5        \* requests.post(..., timeout=5)

Tokens == {"BQD-1", "BQD-2"}
Lifetimes == 0..MaxLifetime

\* what the token endpoint can answer: {access_token, expires_in}, an object
\* lacking one or both, or a body that is not JSON
ResponseBodies ==
    {JsonText([access_token |-> t, expires_in |-> n]) : t \in Tokens, n \in Lifetimes}
        \cup {JsonText([access_token |-> t]) : t \in Tokens}
        \cup {JsonText([expires_in |-> n]) : n \in Lifetimes}
        \cup {JsonText([error |-> "invalid_grant"]), NotJson}

\* what requests.post can do: raise ConnectionError or Timeout, or return a response
Upstream ==
    {[outcome |-> "ConnectionError"], [outcome |-> "Timeout"]}
        \cup {[outcome |-> "response", body |-> b] : b \in ResponseBodies}

\* the Account a method is called on
Self == [access_token |-> access_token,
         access_token_expiration_time |-> access_token_expiration_time,
         refresh_token |-> refresh_token]

\* the request refresh posts (models.py 63-74)
token_request(self) ==
    [url |-> "https://accounts.spotify.com/api/token",
     headers |-> [content_type |-> "application/x-www-form-urlencoded"],
     data |-> [grant_type |-> "refresh_token", refresh_token |-> self.refresh_token,
               client_id |-> "secrets.get_cli_id()"],
     timeout |-> timeout]

\* access_expired with the instant of expiration counted as expired
access_expired_inclusive(self, t) ==
    IF self.access_token_expiration_time = None THEN Raise("TypeError")
    ELSE [exc |-> Ok, value |-> t >= self.access_token_expiration_time.t]

\* Account.access_expired at instant t; datetime > None is a TypeError
access_expired(self, t) ==
    IF self.access_token_expiration_time = None THEN Raise("TypeError")
    ELSE [exc |-> Ok, value |-> t > self.access_token_expiration_time.t]

\* refresh that posts again when the first request did not yield a token
refresh_retry(self, answer, t) ==
    IF answer.outcome = "response" /\ answer.body.text = "json"
       /\ {"access_token", "expires_in"} \subseteq DOMAIN answer.body.value
    THEN [exc |-> Ok, requests |-> <<token_request(self)>>,
          self |-> [self EXCEPT
                      !.access_token = Str(answer.body.value.access_token),
                      !.access_token_expiration_time =
                          Time(t + answer.body.value.expires_in)]]
    ELSE [exc |-> IF answer.outcome # "response" THEN answer.outcome
                  ELSE IF answer.body.text # "json" THEN "JSONDecodeError"
                  ELSE "KeyError",
          self |-> self,
          requests |-> <<token_request(self), token_request(self)>>]

\* Account.refresh; answer is what the upstream does with the request, t the
\* instant timezone.now() returns once the request is over
refresh(self, answer, t) ==
    LET sent == <<token_request(self)>>
    IN  IF answer.outcome # "response"
        THEN [exc |-> answer.outcome, self |-> self, requests |-> sent]
        ELSE
        LET response_json == json_loads(answer.body)
        IN  IF response_json.exc # Ok
            THEN [exc |-> response_json.exc, self |-> self, requests |-> sent]
            ELSE IF "access_token" \notin DOMAIN response_json.value
            THEN [exc |-> "KeyError", self |-> self, requests |-> sent]
            ELSE
            LET self1 == [self EXCEPT
                            !.access_token = Str(response_json.value.access_token)]
            IN  IF "expires_in" \notin DOMAIN response_json.value
                THEN [exc |-> "KeyError", self |-> self1, requests |-> sent]
                ELSE [exc |-> Ok, requests |-> sent,
                      self |-> [self1 EXCEPT
                                  !.access_token_expiration_time =
                                      Time(t + response_json.value.expires_in)]]

\* get_valid_access_token with the token read before the refresh
get_valid_access_token_stale(self, answer, t0, t) ==
    LET expired == access_expired(self, t0)
    IN  IF expired.exc # Ok
        THEN [exc |-> expired.exc, self |-> self, requests |-> <<>>]
        ELSE IF expired.value
        THEN LET r == refresh(self, answer, t)
             IN  IF r.exc # Ok THEN r
                 ELSE [exc |-> Ok, self |-> r.self, requests |-> r.requests,
                       value |-> self.access_token]
        ELSE [exc |-> Ok, self |-> self, requests |-> <<>>,
              value |-> self.access_token]

\* Account.get_valid_access_token, called at instant t0; answer and t are
\* those of the refresh it may make
get_valid_access_token(self, answer, t0, t) ==
    LET expired == access_expired(self, t0)
    IN  IF expired.exc # Ok
        THEN [exc |-> expired.exc, self |-> self, requests |-> <<>>]
        ELSE IF expired.value
        THEN LET r == refresh(self, answer, t)
             IN  IF r.exc # Ok THEN r
                 ELSE [exc |-> Ok, self |-> r.self, requests |-> r.requests,
                       value |-> r.self.access_token]
        ELSE [exc |-> Ok, self |-> self, requests |-> <<>>,
              value |-> self.access_token]

\* a call of Account.new(username, password): a User, and an Account whose
\* token fields are null
New ==
    /\ user = None
    /\ user' = Str("test_account_new_function")
    /\ access_token' = None
    /\ access_token_expiration_time' = None
    /\ refresh_token' = None
    /\ op' = "new"
    /\ ret' = None
    /\ raised' = Ok
    /\ requests' = <<>>
    /\ response' = None
    /\ UNCHANGED <<now, wrapped_vars>>

\* a call of account.access_expired()
AccessExpired ==
    /\ user # None
    /\ LET r == access_expired(Self, now)
       IN  /\ raised' = r.exc
           /\ ret' = IF r.exc = Ok THEN [bool |-> r.value] ELSE None
    /\ op' = "access_expired"
    /\ requests' = <<>>
    /\ response' = None
    /\ UNCHANGED <<account_vars, wrapped_vars>>

\* a call of account.refresh(): the request takes latency seconds
Refresh(answer, latency) ==
    /\ user # None
    /\ now + latency <= MaxTime
    /\ LET r == refresh(Self, answer, now + latency)
       IN  /\ raised' = r.exc
           /\ access_token' = r.self.access_token
           /\ access_token_expiration_time' = r.self.access_token_expiration_time
           /\ requests' = r.requests
    /\ now' = now + latency
    /\ op' = "refresh"
    /\ ret' = None
    /\ response' = answer
    /\ UNCHANGED <<user, refresh_token, wrapped_vars>>

\* a call of account.get_valid_access_token()
GetValidAccessToken(answer, latency) ==
    /\ user # None
    /\ now + latency <= MaxTime
    /\ LET r == get_valid_access_token(Self, answer, now, now + latency)
           sent == Len(r.requests) > 0
       IN  /\ raised' = r.exc
           /\ ret' = IF r.exc = Ok THEN [token |-> r.value] ELSE None
           /\ access_token' = r.self.access_token
           /\ access_token_expiration_time' = r.self.access_token_expiration_time
           /\ requests' = r.requests
           /\ response' = IF sent THEN answer ELSE None
           /\ now' = IF sent THEN now + latency ELSE now
    /\ op' = "get_valid_access_token"
    /\ UNCHANGED <<user, refresh_token, wrapped_vars>>

\* a second passes
Tick ==
    /\ now < MaxTime
    /\ now' = now + 1
    /\ UNCHANGED <<user, access_token, access_token_expiration_time, refresh_token,
                   wrapped_vars, call_vars>>

AccountInit ==
    /\ user = None
    /\ access_token = None
    /\ access_token_expiration_time = None
    /\ refresh_token = None
    /\ now = 0

CallInit ==
    /\ op = "none"
    /\ ret = None
    /\ raised = Ok
    /\ requests = <<>>
    /\ response = None

\* the payloads are inputs: any pair of them
Init ==
    /\ AccountInit
    /\ CallInit
    /\ artist_json \in ArtistPayloads
    /\ track_json \in TrackPayloads
    /\ db = {}

Next == Parse \/ Create

Spec == Init /\ [][Next]_vars

\* the Account alone, with no payload
InitAccount ==
    /\ AccountInit
    /\ CallInit
    /\ artist_json = NotJson
    /\ track_json = NotJson
    /\ db = {}

NextAccount ==
    \/ New
    \/ AccessExpired
    \/ \E answer \in Upstream, latency \in 0..MaxLatency : Refresh(answer, latency)
    \/ \E answer \in Upstream, latency \in 0..MaxLatency :
           GetValidAccessToken(answer, latency)
    \/ Tick

SpecAccount == InitAccount /\ [][NextAccount]_vars

---------------------------------------------------------------------------
(* What the claims speak of *)

\* the payload is a JSON object with an "items" list
HasItems(p) == p.text = "json" /\ "items" \in DOMAIN p.value
Items(p) == p.value.items

ArtistFields == {"name", "followers", "popularity", "genres", "images"}
TrackFields == {"name", "popularity", "duration_ms", "explicit", "album"}

\* every item of list l has the fields F
AllHave(l, F) == \A i \in 1..Len(l) : F \subseteq DOMAIN l[i]

\* both payloads hold at least one item and every item has every field
WellFormedNonEmpty ==
    /\ HasItems(artist_json) /\ HasItems(track_json)
    /\ Len(Items(artist_json)) >= 1 /\ Len(Items(track_json)) >= 1
    /\ AllHave(Items(artist_json), ArtistFields)
    /\ AllHave(Items(track_json), TrackFields)

Genres == {"russian pop", "rap", "trap"}

GenreSlides ==
    {NicheGenreSlide} \cup {"Your most played genre was " \o g \o "!" : g \in Genres}
ArtistPopularitySlides ==
    {"Everyone's on the same page about your favorite artists!",
     "Your favorite artists are interesting, but not controversial.",
     "You have a niche taste in artists!",
     "You tend to enjoy the smaller creators!",
     "Your taste in artists is quite unique!"}
LengthSlides ==
    {"You tend to like shorter songs.", "You tend to like mid-length songs.",
     "You tend to like longer songs."}
TrackPopularitySlides ==
    {"Most people would totally vibe with your playlist!",
     "People may not have heard of the songs you like. All the more reason to share them!",
     "You'll be able to impress people with your knowledge of less popular songs!"}

\* the explicit-count slide for a count of n
ExplicitText(n) ==
    IF n = 0 THEN "None of your top 5 songs were explicit"
    ELSE IF n <= 3 THEN ToString(n) \o " of your top 5 songs were explicit."
    ELSE "Oh my! " \o ToString(n) \o " of your top 5 songs were explicit."
ExplicitSlides == {ExplicitText(n) : n \in 0..(MaxTracks + 1)}

\* the eight slides in their order, for the given first artist and first track
EightSlidesInOrder(slides, artist, track) ==
    /\ Len(slides) = 8
    /\ slides[1] = "Your number one artist was " \o artist.name \o "!"
    /\ slides[2] = "That makes you one of " \o ToString(artist.followers.total) \o " fans!"
    /\ slides[3] \in GenreSlides
    /\ slides[4] \in ArtistPopularitySlides
    /\ slides[5] = "Your number one song was " \o track.name \o "!"
    /\ slides[6] \in LengthSlides
    /\ slides[7] \in ExplicitSlides
    /\ slides[8] \in TrackPopularitySlides

\* the first image of an image list, or None
FirstImage(images) == IF Len(images) > 0 THEN images[1] ELSE None

---------------------------------------------------------------------------
(* The claims *)

\* C1: for payloads with at least one artist and one track, every field present,
\* parse completes without error and yields exactly the 8 slides in their fixed
\* order; this includes inputs in which no artist carries a genre.
C1_EightSlides ==
    (op = "parse" /\ WellFormedNonEmpty) =>
        /\ raised = Ok
        /\ EightSlidesInOrder(ret.slides, Items(artist_json)[1], Items(track_json)[1])

\* C2: the explicit-count slide is the text for n, the number of tracks whose
\* explicit flag is the JSON boolean true.
C2_ExplicitCount ==
    (/\ op = "parse" /\ raised = Ok /\ WellFormedNonEmpty
     /\ \A i \in 1..Len(Items(track_json)) :
            Items(track_json)[i].explicit.json = "boolean") =>
        ret.slides[7] =
            ExplicitText(Cardinality({i \in 1..Len(Items(track_json)) :
                                        Items(track_json)[i].explicit = JsonBool(TRUE)}))

\* C3: when the artist list is not empty and no artist carries a genre, the genre
\* slide is the "so niche" one and the synthesis goes on without an error.
C3_NoGenreIsNiche ==
    (/\ op = "parse" /\ WellFormedNonEmpty
     /\ \A i \in 1..Len(Items(artist_json)) : Items(artist_json)[i].genres = <<>>) =>
        /\ raised = Ok
        /\ ret.slides[3] = NicheGenreSlide

\* C4: when the artist list is empty, parse returns exactly the one slide "You
\* didn't listen to any music recently.", whatever the track payload is; the track
\* payload is not processed, not even parsed.
C4_EmptyArtistsOneSlide ==
    (HasItems(artist_json) /\ Len(Items(artist_json)) = 0) =>
        /\ (op = "parse" => (/\ raised = Ok
                             /\ ret.slides = <<NoMusicSlide>>
                             /\ ret.track_images = <<>>))
        /\ (op = "create" => (/\ raised = Ok
                              /\ \E r \in db : r.id = ret.id /\ r.slides = <<NoMusicSlide>>))

\* C4's case: parse has returned the one slide for an empty artist list while the
\* track payload is not even JSON
C4_Witness ==
    /\ op = "parse" /\ raised = Ok
    /\ HasItems(artist_json) /\ Len(Items(artist_json)) = 0
    /\ track_json = NotJson
    /\ ret.slides = <<NoMusicSlide>>

\* C5: the Wrapped that parse returns has one artist image per artist item and one
\* track image per track item, entry i being the first image of item i or null,
\* also when the artist list is empty and the track list is not.
C5_OneImagePerItem ==
    (/\ op = "parse" /\ raised = Ok
     /\ HasItems(track_json) /\ AllHave(Items(track_json), TrackFields)) =>
        /\ Len(ret.artist_images) = Len(Items(artist_json))
        /\ \A i \in 1..Len(Items(artist_json)) :
               ret.artist_images[i] = FirstImage(Items(artist_json)[i].images)
        /\ Len(ret.track_images) = Len(Items(track_json))
        /\ \A i \in 1..Len(Items(track_json)) :
               ret.track_images[i] = FirstImage(Items(track_json)[i].album.images)

\* the answer of the upstream is no token grant: the request raised, or the
\* response is not JSON or lacks access_token or expires_in
NoGrant(answer) ==
    \/ answer.outcome # "response"
    \/ answer.body.text # "json"
    \/ ~({"access_token", "expires_in"} \subseteq DOMAIN answer.body.value)

\* the exceptions by which the code reports what the spec names AuthRefreshError:
\* those of requests.post, of response.json() and of the two key lookups
AuthRefreshError == {"ConnectionError", "Timeout", "JSONDecodeError", "KeyError"}

\* a step that is a call of get_valid_access_token, of refresh
GetValidAccessTokenCall ==
    \E answer \in Upstream, latency \in 0..MaxLatency : GetValidAccessToken(answer, latency)
RefreshCall ==
    \E answer \in Upstream, latency \in 0..MaxLatency : Refresh(answer, latency)

\* the stored token is expired: the clock is strictly after the stored instant
Expired ==
    /\ access_token_expiration_time # None
    /\ now > access_token_expiration_time.t

\* C6: get_valid_access_token calls refresh exactly when the stored token is
\* expired at the call, and before it reads the token: the value it returns is the
\* token stored at the return, which is not expired then; when the token was not
\* expired it makes no request and leaves token and expiration as they were.
C6_GetValidAccessToken ==
    [][GetValidAccessTokenCall =>
        /\ (Len(requests') > 0) <=> Expired
        /\ raised' = Ok =>
              /\ ret' = [token |-> access_token']
              /\ ~Expired'
        /\ ~Expired =>
              /\ requests' = <<>>
              /\ access_token' = access_token
              /\ access_token_expiration_time' = access_token_expiration_time]_vars

\* C6's case: get_valid_access_token has refreshed an expired token and returned
\* the new one
C6_Witness ==
    /\ op = "get_valid_access_token" /\ raised = Ok
    /\ Len(requests) = 1
    /\ ret = [token |-> access_token]
    /\ ~Expired

\* C7: access_expired returns true iff the clock is strictly after the stored
\* expiration (false when they are equal); it returns false right after a
\* successful refresh, and once the clock has passed a stored expiration it
\* returns true at every later instant at which that expiration is still stored.
C7_AccessExpired ==
    [][/\ (AccessExpired /\ access_token_expiration_time # None) =>
              /\ raised' = Ok
              /\ ret' = [bool |-> now > access_token_expiration_time.t]
       /\ (RefreshCall /\ raised' = Ok) =>
              access_expired(Self, now)' = [exc |-> Ok, value |-> FALSE]
       /\ (Expired /\ access_token_expiration_time' = access_token_expiration_time) =>
              access_expired(Self, now)' = [exc |-> Ok, value |-> TRUE]]_vars

\* C7's case: access_expired has returned true for a token that a refresh stored
\* and that the clock has since passed
C7_Witness ==
    /\ op = "access_expired" /\ raised = Ok
    /\ access_token # None
    /\ Expired
    /\ ret = [bool |-> TRUE]

\* C8: refresh issues exactly one request per call; when the request raises or
\* the response is not a token grant, refresh fails with an AuthRefreshError that
\* reaches the caller, also through get_valid_access_token, and no second request
\* is made.
C8_RefreshFailurePropagates ==
    /\ op = "refresh" =>
           /\ Len(requests) = 1
           /\ NoGrant(response) => raised \in AuthRefreshError
           /\ ~NoGrant(response) => raised = Ok
    /\ op = "get_valid_access_token" =>
           /\ Len(requests) = IF response = None THEN 0 ELSE 1
           /\ (response # None /\ NoGrant(response)) =>
                  (raised \in AuthRefreshError /\ ret = None)

\* C8's case: a refresh made by get_valid_access_token timed out and the caller
\* got the exception, after one request
C8_Witness ==
    /\ op = "get_valid_access_token"
    /\ response = [outcome |-> "Timeout"]
    /\ raised = "Timeout" /\ ret = None
    /\ Len(requests) = 1

\* an artist or track item lacks one of its fields
SomeItemLacksField ==
    \/ HasItems(artist_json) /\ ~AllHave(Items(artist_json), ArtistFields)
    \/ HasItems(track_json) /\ ~AllHave(Items(track_json), TrackFields)

\* C9 as stated: create fails whenever either payload lacks the "items" list or
\* an item lacks a required field, and then no record is persisted; this covers a
\* malformed track payload given together with an empty artist list.
C9_MalformedAlwaysRejected ==
    (op = "create" /\ (~HasItems(artist_json) \/ ~HasItems(track_json)
                          \/ SomeItemLacksField)) =>
        (raised # Ok /\ db = {})

\* a field that parse reads is missing: name and followers of the first artist,
\* popularity, genres and images of any artist
ArtistReadFieldMissing(l) ==
    \/ ~({"name", "followers"} \subseteq DOMAIN l[1])
    \/ ~AllHave(l, {"popularity", "genres", "images"})
\* name of the first track, popularity, duration_ms, album and explicit of any track
TrackReadFieldMissing(l) ==
    Len(l) > 0 /\ (\/ "name" \notin DOMAIN l[1]
                   \/ ~AllHave(l, {"popularity", "duration_ms", "album", "explicit"}))

\* the malformations create runs into
DetectedMalformed ==
    \/ ~HasItems(artist_json)
    \/ /\ Len(Items(artist_json)) > 0
       /\ \/ ArtistReadFieldMissing(Items(artist_json))
          \/ ~HasItems(track_json)
          \/ TrackReadFieldMissing(Items(track_json))

\* C9, amended: create fails whenever the artist payload lacks "items", or the
\* artist list is not empty and the track payload lacks "items" or an item lacks a
\* field that parse reads from it; whenever create fails no record is persisted
\* and whenever it returns the record is; with an empty artist list create
\* succeeds whatever the track payload is.
C9_CreateFailsPersistNothing ==
    [][op' = "create" =>
        /\ DetectedMalformed => raised' # Ok
        /\ raised' # Ok => (db' = db /\ ret' = None)
        /\ raised' = Ok => (\E r \in db' \ db : ret' = [id |-> r.id])
        /\ (HasItems(artist_json) /\ Len(Items(artist_json)) = 0) => raised' = Ok]_vars

\* C9's case: create has failed on a track payload without "items", given with a
\* non-empty artist list, and nothing is saved
C9_Witness ==
    /\ op = "create" /\ raised = "KeyError"
    /\ HasItems(artist_json) /\ Len(Items(artist_json)) > 0
    /\ AllHave(Items(artist_json), ArtistFields)
    /\ track_json = JsonText([error |-> "unauthorized"])
    /\ db = {}

\* C10: in every state of an Account, if the access token is present then the
\* expiration instant is present.
C10_TokenHasExpiration ==
    access_token # None => access_token_expiration_time # None


\* the sum of the popularity values of the artists of list l
RECURSIVE SumPopularity(_)
SumPopularity(l) ==
    IF Len(l) = 0 THEN 0 ELSE l[1].popularity + SumPopularity(Tail(l))

\* the slide for a mean of sum / n, the mean compared as the exact quotient
MeanBucketSlide(sum, n) ==
    IF sum >= 80 * n THEN "Everyone's on the same page about your favorite artists!"
    ELSE IF sum >= 60 * n THEN "Your favorite artists are interesting, but not controversial."
    ELSE IF sum >= 40 * n THEN "You have a niche taste in artists!"
    ELSE IF sum >= 20 * n THEN "You tend to enjoy the smaller creators!"
    ELSE "Your taste in artists is quite unique!"

\* C11: the artist-popularity slide is chosen from the mean of all artist
\* popularity values (sum over count, not truncated), top-down with inclusive
\* lower bounds: a mean of exactly 80, 60, 40 or 20 selects the bucket that starts
\* there, and a mean below 20, negative ones included, selects "quite unique".
C11_ArtistPopularityBucket ==
    (/\ op = "parse" /\ raised = Ok
     /\ Len(Items(artist_json)) > 0) =>
        ret.slides[4] = MeanBucketSlide(SumPopularity(Items(artist_json)),
                                        Len(Items(artist_json)))

\* C11's case: two artists whose mean is exactly 20, and the slide of the bucket
\* that starts at 20
C11_Witness ==
    /\ op = "parse" /\ raised = Ok
    /\ Len(Items(artist_json)) = 2
    /\ SumPopularity(Items(artist_json)) = 20 * 2
    /\ ret.slides[4] = "You tend to enjoy the smaller creators!"

\* the tally of genre g: its occurrences in the genre lists of the artists of l
RECURSIVE Tally(_, _)
Tally(l, g) ==
    IF Len(l) = 0 THEN 0
    ELSE Cardinality({i \in 1..Len(l[1].genres) : l[1].genres[i] = g})
             + Tally(Tail(l), g)

\* C12: when at least one artist carries a genre, the genre named in the "Your
\* most played genre was ...!" slide has a tally no smaller than that of any other
\* genre, a tally being the number of occurrences over all artists' genre lists.
C12_FavoriteGenreHasMaxTally ==
    (/\ op = "parse" /\ raised = Ok
     /\ \E g \in Genres : Tally(Items(artist_json), g) > 0) =>
        \E g \in Genres :
            /\ ret.slides[3] = "Your most played genre was " \o g \o "!"
            /\ \A h \in Genres : Tally(Items(artist_json), h) <= Tally(Items(artist_json), g)

\* C12's case: the slide names trap, counted once for each of two artists, though
\* the first artist's first genre is another
C12_Witness ==
    /\ op = "parse" /\ raised = Ok
    /\ Len(Items(artist_json)) = 2
    /\ Items(artist_json)[1].genres = <<"rap", "trap">>
    /\ Tally(Items(artist_json), "trap") = 2
    /\ ret.slides[3] = "Your most played genre was trap!"

\* C13: a refresh that fails leaves the stored access token and the stored
\* expiration instant both as they were; no failed refresh overwrites the token
\* while the expiration stays the old one.
C13_FailedRefreshChangesNothing ==
    [][(RefreshCall /\ raised' # Ok) =>
        /\ access_token' = access_token
        /\ access_token_expiration_time' = access_token_expiration_time]_vars

===========================================================================
